---- MODULE Spec2Model ----
(***************************************************************************)
(* A model of generate_readme.py: the neofetch-style README generator.     *)
(*                                                                         *)
(* The GitHub side (repositories, commit histories, HTTP status codes) is  *)
(* the environment; the Python functions are operators that keep the       *)
(* source's names and thread the console and the request log through an    *)
(* io record, since print() and requests.post() are their side effects.    *)
(***************************************************************************)
EXTENDS Integers, Sequences, FiniteSets, TLC

VARIABLES
    remoteRepos,    \* GitHub: the user's repositories in enumeration order
    history,        \* GitHub: default-branch commit history of each repository
    cacheFile,      \* cache/<sha256(username)[:16]>.json
    loc,            \* the last call of fetch_loc_with_cache: arguments, result, trace
    dirty,          \* a push happened since the last call of fetch_loc_with_cache
    account,        \* GitHub: what the REST API reports about the user
    stats,          \* the last call of fetch_github_stats: arguments, result, trace
    today,          \* the calendar day datetime.today() falls on
    fmt,            \* the last call of format_number: argument and result
    info,           \* the last call of build_info_lines: arguments, day, result
    merge,          \* the last call of merge_ascii_and_info: arguments and result
    files,          \* ascii.txt, config.json and README.md
    readme          \* the run of generate_readme: position, locals, console

varsLoc == <<remoteRepos, history, cacheFile, loc, dirty>>
varsStats == <<account, stats>>

varsText == <<today, fmt, info, merge>>
varsReadme == <<files, readme>>

vars ==
    <<remoteRepos, history, cacheFile, loc, dirty, account, stats,
      today, fmt, info, merge, files, readme>>

----------------------------------------------------------------------------
(* Bounds of the model.                                                    *)

\* commits pushed to the account's repositories, all together
MaxCommits == 2
\* edges GitHub returns per page (the queries ask for first: 100)
PageSize == 1
\* requests that may fail within one run
MaxFailures == 1
\* how far from the anchors the arguments of format_number lie
FmtWindow == 4
\* days that pass after the first one
MaxDays == 4
\* lines of an art, and of an info panel
MaxArt == 3
MaxInfo == 6

----------------------------------------------------------------------------
(* Python values.                                                          *)

\* None, and a present value; `not x` is x = None for the values used here
None == <<>>
Some(v) == <<v>>

\* dict.get(key, default)
Get(d, key, default) == IF key \in DOMAIN d THEN d[key] ELSE default

\* d[key] = value on a dict
Put(d, key, value) ==
    [k \in DOMAIN d \cup {key} |-> IF k = key THEN value ELSE d[k]]

EmptyDict == [k \in {} |-> 0]

\* sum() of a list of numbers
RECURSIVE SumSeq(_)
SumSeq(s) == IF s = <<>> THEN 0 ELSE Head(s) + SumSeq(Tail(s))

Range(seq) == {seq[i] : i \in 1..Len(seq)}

Min(a, b) == IF a <= b THEN a ELSE b
Max(a, b) == IF a >= b THEN a ELSE b

----------------------------------------------------------------------------
(* GitHub: the data behind the GraphQL queries.                            *)

Names == {"o/a", "o/b"}

\* the GraphQL node id of the user whose profile is generated
MyId == "U_me"

\* what a commit node of the history query can look like: authored by the
\* user, authored by somebody else, and with no GitHub user behind the author
CommitKinds ==
    { [additions |-> 3, deletions |-> 1, author |-> Some([user |-> Some([id |-> MyId])])],
      [additions |-> 5, deletions |-> 2, author |-> Some([user |-> Some([id |-> "U_other"])])],
      [additions |-> 7, deletions |-> 4, author |-> Some([user |-> None])] }

\* a page of `items` after `cursor`: edges and pageInfo {endCursor, hasNextPage};
\* cursors are opaque to the client: None for the first page, otherwise
\* Some(k), k the position of the last edge of the page that returned it
Page(items, cursor) ==
    LET start == IF cursor = None THEN 0 ELSE cursor[1]
        stop  == Min(start + PageSize, Len(items))
    IN  [ edges    |-> SubSeq(items, start + 1, stop),
          pageInfo |-> [ endCursor   |-> IF stop > start THEN Some(stop) ELSE None,
                         hasNextPage |-> stop < Len(items) ] ]

\* node of the repositories query; a repository without commits has no
\* default branch
RepoNode(r) ==
    [ nameWithOwner    |-> r.nameWithOwner,
      isFork           |-> r.isFork,
      defaultBranchRef |-> IF history[r.nameWithOwner] = <<>> THEN None
                           ELSE Some([target |-> Some([history |->
                                    [totalCount |-> Len(history[r.nameWithOwner])]])]) ]

RepoNodes == [i \in 1..Len(remoteRepos) |-> RepoNode(remoteRepos[i])]

\* the JSON a 200 response carries for each query
UserJson == [user |-> Some([id |-> MyId])]

ReposJson(cursor) ==
    [user |-> Some([id |-> MyId, repositories |-> Page(RepoNodes, cursor)])]

HistoryJson(name, cursor) ==
    [repository |-> Some([defaultBranchRef |->
        IF history[name] = <<>> THEN None
        ELSE Some([target |-> [history |-> Page(history[name], cursor)]])])]

\* a request is <<query, repository, cursor>>
UserReq == <<"user", "", None>>
ReposReq(cursor) == <<"repos", "", cursor>>
HistoryReq(name, cursor) == <<"history", name, cursor>>

\* how the requests of one run fare: those in bad fail the way `kind` says
\*   "http_error": a non-200 status; "no_data": 200 with errors and no data;
\*   "no_user": 200 with data.user null
NoFailure == [bad |-> {}, kind |-> "http_error"]

\* the failures that can meet a run sending the requests `sent`: up to
\* MaxFailures of them fail, all the same way
Nets(sent) ==
    {NoFailure} \cup
    { net \in [ bad  : {s \in SUBSET sent : Cardinality(s) \in 1..MaxFailures},
                kind : {"http_error", "no_data", "no_user"} ] :
        net.kind = "no_user" => \A req \in net.bad : req[1] # "history" }

Response(req, net) ==
    LET data == CASE req[1] = "user"    -> UserJson
                  [] req[1] = "repos"   -> ReposJson(req[3])
                  [] req[1] = "history" -> HistoryJson(req[2], req[3])
    IN  IF req \notin net.bad THEN [status_code |-> 200, hasData |-> TRUE, data |-> data]
        ELSE IF net.kind = "http_error"
             THEN [status_code |-> 502, hasData |-> FALSE, data |-> None]
        ELSE IF net.kind = "no_data"
             THEN [status_code |-> 200, hasData |-> FALSE, data |-> None]
        ELSE [status_code |-> 200, hasData |-> TRUE, data |-> [user |-> None]]

----------------------------------------------------------------------------
(* The GraphQL client.  A function that works on the result of a call is   *)
(* split in two operators, the second taking that result as a parameter.    *)

NoIo == [requests |-> <<>>, out |-> <<>>]

print(io, msg) == [io EXCEPT !.out = Append(@, msg)]

\* graphql_request, once requests.post has returned `response`
GraphqlResult(response, sent) ==
    IF response.status_code = 200
    THEN [result |-> Some(response), io |-> sent]
    ELSE [result |-> None, io |-> print(sent, "GraphQL request failed")]

graphql_request(req, net, io) ==
    GraphqlResult(Response(req, net), [io EXCEPT !.requests = Append(@, req)])

\* the edges of one page of the repositories query, as the client records them
RECURSIVE ReposOfEdges(_)
ReposOfEdges(edges) ==
    IF edges = <<>> THEN <<>>
    ELSE LET node == Head(edges)
             commit_count ==
                 IF node.defaultBranchRef # None /\ node.defaultBranchRef[1].target # None
                 THEN node.defaultBranchRef[1].target[1].history.totalCount
                 ELSE 0
         IN  <<[ nameWithOwner |-> node.nameWithOwner,
                 isFork        |-> node.isFork,
                 commitCount   |-> commit_count ]>> \o ReposOfEdges(Tail(edges))

\* `if user_data["repositories"]["pageInfo"]["hasNextPage"]`
ReposHasNext(pageInfo) == pageInfo.hasNextPage

\* repos.extend(...)
Extend(repos, rest) == [repos |-> repos \o rest.repos, io |-> rest.io]

RECURSIVE fetch_repos_with_commits(_, _, _)

\* fetch_repos_with_commits, once graphql_request has returned `r`
ReposFromResult(r, net) ==
    IF r.result = None \/ ~r.result[1].hasData \/ r.result[1].data.user = None
    THEN [repos |-> <<>>, io |-> r.io]
    ELSE LET repositories == r.result[1].data.user[1].repositories
         IN  IF ReposHasNext(repositories.pageInfo)
             THEN Extend(ReposOfEdges(repositories.edges),
                         fetch_repos_with_commits(repositories.pageInfo.endCursor,
                                                  net, r.io))
             ELSE [repos |-> ReposOfEdges(repositories.edges), io |-> r.io]

fetch_repos_with_commits(cursor, net, io) ==
    ReposFromResult(graphql_request(ReposReq(cursor), net, io), net)

\* fetch_user_id, once graphql_request has returned `r`
UserIdFromResult(r) ==
    IF r.result # None /\ r.result[1].hasData /\ r.result[1].data.user # None
    THEN [id |-> Some(r.result[1].data.user[1].id), io |-> r.io]
    ELSE [id |-> None, io |-> r.io]

fetch_user_id(net, io) == UserIdFromResult(graphql_request(UserReq, net, io))

\* the loop over the edges of one history page
RECURSIVE SumEdges(_, _, _)
SumEdges(edges, user_id, acc) ==
    IF edges = <<>> THEN acc
    ELSE LET node        == Head(edges)
             author      == node.author
             author_user == IF author # None THEN author[1].user ELSE None
             mine        == author_user # None /\ Some(author_user[1].id) = user_id
         IN  SumEdges(Tail(edges), user_id,
                 IF mine
                 THEN [ additions  |-> acc.additions + node.additions,
                        deletions  |-> acc.deletions + node.deletions,
                        my_commits |-> acc.my_commits + 1 ]
                 ELSE acc)

\* (mutant) the traversal goes on while the page carries a cursor
HistoryHasNextByCursor(pageInfo) == pageInfo.endCursor # None

\* `if history["pageInfo"]["hasNextPage"]`
HistoryHasNext(pageInfo) == pageInfo.hasNextPage

RECURSIVE fetch_loc_for_repo(_, _, _, _, _, _)

\* fetch_loc_for_repo, once the edges of the page are summed into `sum`
LocAfterPage(name, user_id, pageInfo, sum, net, io) ==
    IF HistoryHasNext(pageInfo)
    THEN fetch_loc_for_repo(name, user_id, pageInfo.endCursor, sum, net, io)
    ELSE [acc |-> sum, io |-> io]

\* fetch_loc_for_repo, once graphql_request has returned `r`
LocFromResult(r, name, user_id, acc, net) ==
    IF r.result = None \/ ~r.result[1].hasData
    THEN [acc |-> acc, io |-> r.io]
    ELSE LET repo_data == r.result[1].data.repository
         IN  IF repo_data = None \/ repo_data[1].defaultBranchRef = None
             THEN [acc |-> acc, io |-> r.io]
             ELSE LET page == repo_data[1].defaultBranchRef[1].target.history
                  IN  LocAfterPage(name, user_id, page.pageInfo,
                                   SumEdges(page.edges, user_id, acc), net, r.io)

\* owner and repo_name are name.split("/"), and the query puts them together
\* again: the request is for `name`
fetch_loc_for_repo(name, user_id, cursor, acc, net, io) ==
    LocFromResult(graphql_request(HistoryReq(name, cursor), net, io),
                  name, user_id, acc, net)

----------------------------------------------------------------------------
(* The cache file.                                                         *)

\* the file is missing, unreadable as JSON, or holds a dict
load_loc_cache(file) == IF file.state = "ok" THEN file.data ELSE EmptyDict

save_loc_cache(cache) == [state |-> "ok", data |-> cache]

\* (mutant) the entry is stored without the commit count it was read at
NewEntryNoCount(current_commits, acc) ==
    [ commitCount |-> 0,
      additions   |-> acc.additions,
      deletions   |-> acc.deletions,
      myCommits   |-> acc.my_commits ]

NewEntry(current_commits, acc) ==
    [ commitCount |-> current_commits,
      additions   |-> acc.additions,
      deletions   |-> acc.deletions,
      myCommits   |-> acc.my_commits ]

\* (mutant) an entry is valid whatever commit count it was stored under
IsHitByName(cache, name, current_commits) == name \in DOMAIN cache

\* cache[name].get("commitCount") is None without the key, and equals no count
IsHit(cache, name, current_commits) ==
    /\ name \in DOMAIN cache
    /\ "commitCount" \in DOMAIN cache[name]
    /\ cache[name].commitCount = current_commits

\* the cache-miss branch, once fetch_loc_for_repo has returned `f`
\* (mutant) the fetched entry is put into a cache of its own
MissAlone(st, name, current_commits, f) ==
    [st EXCEPT !.cache = Put(EmptyDict, name, NewEntry(current_commits, f.acc)),
               !.total_additions = @ + f.acc.additions,
               !.total_deletions = @ + f.acc.deletions,
               !.cache_misses = @ + 1,
               !.io = f.io]

Miss(st, name, current_commits, f) ==
    [st EXCEPT !.cache = Put(@, name, NewEntry(current_commits, f.acc)),
               !.total_additions = @ + f.acc.additions,
               !.total_deletions = @ + f.acc.deletions,
               !.cache_misses = @ + 1,
               !.io = f.io]

\* a repository that is not a fork: served from the cache, or fetched
CountRepo(repo, user_id, net, st) ==
    LET name            == repo.nameWithOwner
        current_commits == repo.commitCount
    IN  IF IsHit(st.cache, name, current_commits)
        THEN [st EXCEPT !.total_additions = @ + Get(st.cache[name], "additions", 0),
                        !.total_deletions = @ + Get(st.cache[name], "deletions", 0),
                        !.cache_hits = @ + 1]
        ELSE Miss(st, name, current_commits,
                  fetch_loc_for_repo(name, user_id, None,
                      [additions |-> 0, deletions |-> 0, my_commits |-> 0],
                      net, st.io))

\* (mutant) forks are counted like any other repository
LocBodyNoSkip(repo, user_id, net, st) == CountRepo(repo, user_id, net, st)

\* the body of the loop of fetch_loc_with_cache
LocBody(repo, user_id, net, st) ==
    IF repo.isFork THEN st ELSE CountRepo(repo, user_id, net, st)

\* `for repo in repos`
RECURSIVE LocLoop(_, _, _, _)
LocLoop(repos, user_id, net, st) ==
    IF repos = <<>> THEN st
    ELSE LocLoop(Tail(repos), user_id, net, LocBody(Head(repos), user_id, net, st))

\* what a call leaves behind: the return value, the console and request log,
\* the file, and the locals a claim speaks about
LocResult(ret, io, file, repos, before, hits, misses, read, wrote) ==
    [ ret |-> ret, io |-> io, file |-> file, repos |-> repos, before |-> before,
      cache_hits |-> hits, cache_misses |-> misses, read |-> read, wrote |-> wrote ]

\* `return 0, 0` before the cache is loaded
LocSkipped(io, file) == LocResult(<<0, 0>>, io, file, <<>>, EmptyDict, 0, 0, FALSE, FALSE)

\* fetch_loc_with_cache, once the loop has ended in `st`
LocAfterLoop(st, repos, cache, verbose) ==
    LocResult(<<st.total_additions, st.total_deletions>>,
              IF verbose THEN print(st.io, "[LOC] Cache hits and misses") ELSE st.io,
              save_loc_cache(st.cache), repos, cache,
              st.cache_hits, st.cache_misses, TRUE, TRUE)

\* fetch_loc_with_cache, once fetch_repos_with_commits has returned `e`
LocAfterRepos(user_id, e, verbose, net, cache) ==
    LocAfterLoop(LocLoop(e.repos, user_id, net,
                    [ cache |-> cache, total_additions |-> 0, total_deletions |-> 0,
                      cache_hits |-> 0, cache_misses |-> 0,
                      io |-> IF verbose THEN print(e.io, "[LOC] Found repositories")
                             ELSE e.io ]),
                 e.repos, cache, verbose)

\* fetch_loc_with_cache, once fetch_user_id has returned `u`
LocAfterUserId(u, verbose, net, file) ==
    IF u.id = None
    THEN LocSkipped(IF verbose THEN print(u.io, "[LOC] Could not fetch user ID")
                    ELSE u.io, file)
    ELSE LocAfterRepos(u.id, fetch_repos_with_commits(None, net, u.io), verbose, net,
                       load_loc_cache(file))

fetch_loc_with_cache(token, verbose, net, io0, file) ==
    IF token = ""
    THEN LocSkipped(IF verbose
                    THEN print(io0, "[LOC] No token provided, skipping LOC fetch")
                    ELSE io0, file)
    ELSE LocAfterUserId(fetch_user_id(net, io0), verbose, net, file)

----------------------------------------------------------------------------
(* fetch_github_stats: four REST calls, then the line counts.              *)

RestCalls == {"user", "repos", "commits", "prs"}

\* the JSON a 200 response of each REST call carries
RestJson(call) ==
    CASE call = "user"    -> [public_repos |-> account.public_repos,
                              followers |-> account.followers]
      [] call = "repos"   -> [i \in 1..Len(account.stargazers) |->
                                [stargazers_count |-> account.stargazers[i]]]
      [] call = "commits" -> [total_count |-> account.commits]
      [] call = "prs"     -> [total_count |-> account.prs]

\* requests.get: `rest` gives the status code of each REST call of the run
requests_get(call, rest, io) ==
    [ resp |-> [status_code |-> rest[call], json |-> RestJson(call)],
      io   |-> [io EXCEPT !.requests = Append(@, <<"GET", call, None>>)] ]

ZeroStats ==
    [ repos |-> 0, stars |-> 0, followers |-> 0, commits |-> 0, prs |-> 0,
      additions |-> 0, deletions |-> 0 ]

\* each step takes and returns [stats, io, file]; the second operator of a
\* step takes what requests.get returned
UserFromResponse(st, r) ==
    IF r.resp.status_code = 200
    THEN [st EXCEPT !.stats.repos = Get(r.resp.json, "public_repos", 0),
                    !.stats.followers = Get(r.resp.json, "followers", 0),
                    !.io = r.io]
    ELSE [st EXCEPT !.io = r.io]

UserStep(st, rest) == UserFromResponse(st, requests_get("user", rest, st.io))

StarsFromResponse(st, r) ==
    IF r.resp.status_code = 200
    THEN [st EXCEPT !.stats.stars =
                        SumSeq([i \in 1..Len(r.resp.json) |->
                                  Get(r.resp.json[i], "stargazers_count", 0)]),
                    !.io = r.io]
    ELSE [st EXCEPT !.io = r.io]

StarsStep(st, rest) == StarsFromResponse(st, requests_get("repos", rest, st.io))

CommitsFromResponse(st, r) ==
    IF r.resp.status_code = 200
    THEN [st EXCEPT !.stats.commits = Get(r.resp.json, "total_count", 0),
                    !.io = r.io]
    ELSE [st EXCEPT !.io = r.io]

CommitsStep(st, rest) == CommitsFromResponse(st, requests_get("commits", rest, st.io))

PrsFromResponse(st, r) ==
    IF r.resp.status_code = 200
    THEN [st EXCEPT !.stats.prs = Get(r.resp.json, "total_count", 0),
                    !.io = r.io]
    ELSE [st EXCEPT !.io = r.io]

\* (mutant) the PR search sits inside the `if` of the commit search
PrsStepNested(st, rest) ==
    IF rest["commits"] # 200 THEN st
    ELSE PrsFromResponse(st, requests_get("prs", rest, st.io))

PrsStep(st, rest) == PrsFromResponse(st, requests_get("prs", rest, st.io))

LocIntoStats(st, l) ==
    [st EXCEPT !.stats.additions = l.ret[1],
               !.stats.deletions = l.ret[2],
               !.io = l.io,
               !.file = l.file]

\* `if token:` additions, deletions = fetch_loc_with_cache(...)
LocStep(st, token, verbose, net) ==
    IF token # ""
    THEN LocIntoStats(st, fetch_loc_with_cache(token, verbose, net, st.io, st.file))
    ELSE st

fetch_github_stats(token, verbose, rest, net, io0, file) ==
    LocStep(PrsStep(CommitsStep(StarsStep(UserStep(
                [stats |-> ZeroStats, io |-> io0, file |-> file],
            rest), rest), rest), rest),
        token, verbose, net)

----------------------------------------------------------------------------
(* Python strings and numbers.                                             *)

\* s * k
RECURSIVE Repeat(_, _)
Repeat(s, k) == IF k <= 0 THEN "" ELSE s \o Repeat(s, k - 1)

\* s.find(pat) counted from 1, 0 when pat does not occur from position i on
RECURSIVE FindFrom(_, _, _)
FindFrom(s, pat, i) ==
    IF i + Len(pat) - 1 > Len(s) THEN 0
    ELSE IF SubSeq(s, i, i + Len(pat) - 1) = pat THEN i
    ELSE FindFrom(s, pat, i + 1)

Find(s, pat) == FindFrom(s, pat, 1)

\* s.split(sep)[0]
SplitHead(s, sep) == IF Find(s, sep) = 0 THEN s ELSE SubSeq(s, 1, Find(s, sep) - 1)

\* sep.join(s.split(sep)[1:]) for an s that contains sep
SplitRest(s, sep) == SubSeq(s, Find(s, sep) + Len(sep), Len(s))

\* ", ".join(parts)
RECURSIVE Join(_, _)
Join(sep, parts) ==
    IF parts = <<>> THEN ""
    ELSE IF Len(parts) = 1 THEN parts[1]
    ELSE parts[1] \o sep \o Join(sep, Tail(parts))

\* int.bit_length()
RECURSIVE BitLength(_)
BitLength(q) == IF q = 0 THEN 0 ELSE 1 + BitLength(q \div 2)

\* the binary digits of rem / d after the point: after `steps` digits, the
\* last digit written (`bit` before the first one) and what remains
RECURSIVE Binary(_, _, _, _)
Binary(rem, d, bit, steps) ==
    IF steps = 0 THEN [bit |-> bit, rem |-> rem]
    ELSE Binary((2 * rem) % d, d, (2 * rem) \div d, steps - 1)

\* n / d for n >= d > 0 is the double nearest to the quotient, 53 significant
\* bits, ties to the even one: -1, 0 or 1 as the double is below, at or
\* above the quotient
TrueDivError(n, d) ==
    LET cut == Binary(n % d, d, (n \div d) % 2, 53 - BitLength(n \div d))
    IN  IF cut.rem = 0 THEN 0
        ELSE IF 2 * cut.rem < d THEN -1
        ELSE IF 2 * cut.rem > d THEN 1
        ELSE IF cut.bit = 1 THEN 1 ELSE -1

\* the tenths in f"{n / d:.1f}": `tenths` of them lie below the quotient
\* and `rest` / (10 * d) is left; the double is formatted by its exact value,
\* a tie going to the even digit
RoundUp(n, d, tenths, rest, err) ==
    IF 2 * rest # d THEN 2 * rest > d
    ELSE IF err # 0 THEN err > 0
    ELSE tenths % 2 = 1

Tenths(n, d) ==
    (n \div d) * 10 + ((n % d) * 10) \div d
        + (IF RoundUp(n, d, ((n % d) * 10) \div d, ((n % d) * 10) % d, TrueDivError(n, d))
           THEN 1 ELSE 0)

\* f"{n / d:.1f}"
Fixed1(n, d) ==
    LET t == Tenths(n, d)
    IN  ToString(t \div 10) \o "." \o ToString(t % 10)

\* (mutant) the suffixes start above the thresholds
format_number_above(n) ==
    IF n > 1000000 THEN Fixed1(n, 1000000) \o "M"
    ELSE IF n > 1000 THEN Fixed1(n, 1000) \o "K"
    ELSE ToString(n)

format_number(n) ==
    IF n >= 1000000 THEN Fixed1(n, 1000000) \o "M"
    ELSE IF n >= 1000 THEN Fixed1(n, 1000) \o "K"
    ELSE ToString(n)

----------------------------------------------------------------------------
(* Dates: datetime.strptime, datetime.today and dateutil's relativedelta.  *)

\* calendar.monthrange(year, month)[1]
DaysInMonth(year, month) ==
    IF month = 2
    THEN (IF (year % 4 = 0 /\ year % 100 # 0) \/ year % 400 = 0 THEN 29 ELSE 28)
    ELSE IF month \in {4, 6, 9, 11} THEN 30 ELSE 31

Date(year, month, day) == [year |-> year, month |-> month, day |-> day]

\* date.toordinal(): days since 0001-01-01, which is day 1
RECURSIVE DaysBeforeMonth(_, _)
DaysBeforeMonth(year, month) ==
    IF month = 1 THEN 0
    ELSE DaysBeforeMonth(year, month - 1) + DaysInMonth(year, month - 1)

ToOrdinal(dt) ==
    LET y == dt.year - 1
    IN  y * 365 + y \div 4 - y \div 100 + y \div 400
            + DaysBeforeMonth(dt.year, dt.month) + dt.day

\* dt1 < dt2 for two midnights
Before(dt1, dt2) ==
    \/ dt1.year < dt2.year
    \/ dt1.year = dt2.year /\ dt1.month < dt2.month
    \/ dt1.year = dt2.year /\ dt1.month = dt2.month /\ dt1.day < dt2.day

\* the day after dt
NextDay(dt) ==
    IF dt.day < DaysInMonth(dt.year, dt.month) THEN Date(dt.year, dt.month, dt.day + 1)
    ELSE IF dt.month < 12 THEN Date(dt.year, dt.month + 1, 1)
    ELSE Date(dt.year + 1, 1, 1)

\* int(s) of a string of decimal digits
RECURSIVE ParseInt(_)
ParseInt(s) ==
    IF s = "" THEN 0
    ELSE LET c == SubSeq(s, Len(s), Len(s))
         IN  ParseInt(SubSeq(s, 1, Len(s) - 1)) * 10
                + (CASE c = "0" -> 0 [] c = "1" -> 1 [] c = "2" -> 2 [] c = "3" -> 3
                     [] c = "4" -> 4 [] c = "5" -> 5 [] c = "6" -> 6 [] c = "7" -> 7
                     [] c = "8" -> 8 [] c = "9" -> 9)

\* datetime.strptime(s, "%Y-%m-%d") of a string written as YYYY-MM-DD
strptime(s) ==
    Date(ParseInt(SubSeq(s, 1, 4)), ParseInt(SubSeq(s, 6, 7)), ParseInt(SubSeq(s, 9, 10)))

\* relativedelta._set_months: a count of months as years and months of one sign
SetMonths(months) ==
    IF months >= 0 THEN [years |-> months \div 12, months |-> months % 12]
    ELSE [years |-> 0 - ((0 - months) \div 12), months |-> 0 - ((0 - months) % 12)]

\* dt + relativedelta(years, months): the day is cut to the month's length
AddMonths(dt, ym) ==
    LET Clamped(year, month) == Date(year, month, Min(DaysInMonth(year, month), dt.day))
    IN  IF dt.month + ym.months > 12
        THEN Clamped(dt.year + ym.years + 1, dt.month + ym.months - 12)
        ELSE IF dt.month + ym.months < 1
        THEN Clamped(dt.year + ym.years - 1, dt.month + ym.months + 12)
        ELSE Clamped(dt.year + ym.years, dt.month + ym.months)

\* relativedelta(dt1, dt2): the months are stepped towards dt2 while
\* dt2 + months lies beyond dt1, the days are what is left
RECURSIVE DeltaFrom(_, _, _)
DeltaFrom(dt1, dt2, months) ==
    IF Before(dt1, dt2)
    THEN IF Before(AddMonths(dt2, SetMonths(months)), dt1)
         THEN DeltaFrom(dt1, dt2, months + 1)
         ELSE [years |-> SetMonths(months).years, months |-> SetMonths(months).months,
               days |-> ToOrdinal(dt1) - ToOrdinal(AddMonths(dt2, SetMonths(months)))]
    ELSE IF Before(dt1, AddMonths(dt2, SetMonths(months)))
         THEN DeltaFrom(dt1, dt2, months - 1)
         ELSE [years |-> SetMonths(months).years, months |-> SetMonths(months).months,
               days |-> ToOrdinal(dt1) - ToOrdinal(AddMonths(dt2, SetMonths(months)))]

relativedelta(dt1, dt2) ==
    DeltaFrom(dt1, dt2, (dt1.year - dt2.year) * 12 + (dt1.month - dt2.month))

\* f"{count} year{'s' if count != 1 else ''}"
Plural(count, unit) ==
    IF count > 0
    THEN <<ToString(count) \o " " \o unit \o (IF count # 1 THEN "s" ELSE "")>>
    ELSE <<>>

\* the parts of a difference, joined
Uptime(diff) ==
    LET parts == Plural(diff.years, "year") \o Plural(diff.months, "month")
                    \o Plural(diff.days, "day")
    IN  IF parts # <<>> THEN Join(", ", parts) ELSE "0 days"

\* (mutant) the uptime is that of the day of the call before
calculate_uptime_stale(birthday_str, now) ==
    Uptime(relativedelta(info.today, strptime(birthday_str)))

\* calculate_uptime on a day `now`: datetime.today() is that day at some
\* time of the day, which the years, months and days of the difference to a
\* midnight do not depend on
calculate_uptime(birthday_str, now) ==
    Uptime(relativedelta(now, strptime(birthday_str)))

----------------------------------------------------------------------------
(* build_info_lines.  The box-drawing characters of the source are three   *)
(* code points each in the file as it is; each stands here as three ASCII  *)
(* characters.  A missing key read with .get() is "", which is as false as *)
(* None.                                                                   *)

CONTENT_WIDTH == 50
BOX_WIDTH == CONTENT_WIDTH + 4

\* the dash of the section titles; ",iO" is the line of the borders and
\* ",ie", ",ii", ",io", ",iu" are their four corners
LightHorizontal == ",iA"

\* value.split(">")[1].split("<")[0] if ">" in value else value
VisibleValue(value) ==
    IF Find(value, ">") # 0 THEN SplitHead(SplitHead(SplitRest(value, ">"), ">"), "<")
    ELSE value

make_line(label, value, is_link) ==
    LET visible_len == IF is_link THEN Len(label) + 3 + Len(VisibleValue(value))
                       ELSE Len(label) + 3 + Len(value)
    IN  "  " \o label \o ": " \o Repeat(".", Max(CONTENT_WIDTH - visible_len, 3))
             \o " " \o value \o "  "

make_section(title) ==
    LET prefix == LightHorizontal \o LightHorizontal \o " " \o title \o " "
    IN  "  " \o prefix \o Repeat(LightHorizontal, CONTENT_WIDTH - Len(prefix)) \o "  "

make_empty == "  " \o Repeat(" ", CONTENT_WIDTH) \o "  "

\* if d.get(key): lines.append(make_line(label, d[key]))
LineIf(d, key, label) ==
    IF Get(d, key, "") # "" THEN <<make_line(label, d[key], FALSE)>> ELSE <<>>

\* if section_lines: the title, the lines and an empty line
SectionIf(title, section_lines) ==
    IF section_lines # <<>> THEN <<make_section(title)>> \o section_lines \o <<make_empty>>
    ELSE <<>>

BasicInfo(config, now) ==
    LineIf(config, "host", "Host")
        \o LineIf(config, "kernel", "Kernel")
        \o (IF Get(config, "birthday", "") # ""
            THEN <<make_line("Uptime", calculate_uptime(config["birthday"], now), FALSE)>>
            ELSE <<>>)
        \o LineIf(config, "location", "Location")

LanguageLines(languages) ==
    LineIf(languages, "code", "Languages.Code")
        \o LineIf(languages, "markup", "Languages.Markup")
        \o LineIf(languages, "human", "Languages.Human")

StackLines(stack) ==
    LineIf(stack, "backend", "Backend")
        \o LineIf(stack, "frontend", "Frontend")
        \o LineIf(stack, "database", "Database")
        \o LineIf(stack, "infra", "Infra")

\* the link is f'<a href="{url}">{label}</a>'
ContactIf(entry, label) ==
    IF Get(entry, "url", "") # "" /\ Get(entry, "label", "") # ""
    THEN <<make_line(label,
                     "<a href=\"" \o entry["url"] \o "\">" \o entry["label"] \o "</a>",
                     TRUE)>>
    ELSE <<>>

ContactLines(contact) ==
    ContactIf(Get(contact, "website", EmptyDict), "Website")
        \o ContactIf(Get(contact, "email", EmptyDict), "Email")
        \o ContactIf(Get(contact, "linkedin", EmptyDict), "LinkedIn")

StatsLines(st) ==
    << make_section("GitHub Stats"),
       make_line("Repos", ToString(st.repos), FALSE),
       make_line("Commits", format_number(st.commits), FALSE),
       make_line("PRs", format_number(st.prs), FALSE),
       make_line("Stars", format_number(st.stars), FALSE),
       make_line("Followers", ToString(st.followers), FALSE),
       make_line("Lines of Code",
                 format_number(st.additions + st.deletions) \o " { "
                    \o format_number(st.additions) \o "++, "
                    \o format_number(st.deletions) \o "-- }",
                 FALSE) >>

InfoLines(config, st, now) ==
    << "$ " \o config["header"],
       ",ie" \o Repeat(",iO", BOX_WIDTH - 2) \o ",ii",
       make_empty >>
        \o BasicInfo(config, now)
        \o <<make_empty>>
        \o SectionIf("Languages", LanguageLines(Get(config, "languages", EmptyDict)))
        \o SectionIf("Stack", StackLines(Get(config, "stack", EmptyDict)))
        \o SectionIf("Contact", ContactLines(Get(config, "contact", EmptyDict)))
        \o StatsLines(st)
        \o << make_empty,
              ",io" \o Repeat(",iO", BOX_WIDTH - 2) \o ",iu" >>

\* what a call leaves: the list it returns, or the exception that ends it
Returned(value) == [raised |-> "", value |-> value]
Raised(exception) == [raised |-> exception, value |-> <<>>]

\* build_info_lines on a day `now`; config["header"] of a configuration
\* without that key raises KeyError
build_info_lines(config, st, now) ==
    IF "header" \notin DOMAIN config THEN Raised("KeyError: 'header'")
    ELSE Returned(InfoLines(config, st, now))

----------------------------------------------------------------------------
(* merge_ascii_and_info.                                                   *)

\* [x] * k
RepeatList(x, k) == [i \in 1..k |-> x]

\* max(len(line) for line in ascii_lines) if ascii_lines else 0
RECURSIVE MaxLen(_)
MaxLen(ascii_lines) ==
    IF ascii_lines = <<>> THEN 0
    ELSE Max(Len(Head(ascii_lines)), MaxLen(Tail(ascii_lines)))

\* (mutant) the art column is not filled up
LJustNone(s, width) == s

\* f"{s:<{width}}"
LJust(s, width) == s \o Repeat(" ", width - Len(s))

\* the fill lines above the art
TopFill(ascii_height, info_height) ==
    IF info_height - 2 > ascii_height THEN (info_height - 2 - ascii_height) \div 2 ELSE 0

BottomFill(ascii_height, info_height) ==
    IF info_height - 2 > ascii_height
    THEN info_height - 2 - ascii_height - TopFill(ascii_height, info_height)
    ELSE 0

\* the art between its border lines, with the fill lines when the info is taller
AsciiBlock(ascii_lines, info_height, ascii_width) ==
    IF info_height > Len(ascii_lines)
    THEN <<Repeat("=", ascii_width)>>
            \o RepeatList(Repeat("@", ascii_width), TopFill(Len(ascii_lines), info_height))
            \o ascii_lines
            \o RepeatList(Repeat("@", ascii_width), BottomFill(Len(ascii_lines), info_height))
            \o <<Repeat("=", ascii_width)>>
    ELSE <<Repeat("=", ascii_width)>> \o ascii_lines \o <<Repeat("=", ascii_width)>>

\* the info lines, filled up with "" when the art is at least as tall
InfoBlock(ascii_lines, info_lines) ==
    IF Len(info_lines) > Len(ascii_lines) THEN info_lines
    ELSE info_lines \o RepeatList("", Len(ascii_lines) + 2 - Len(info_lines))

\* the loop that puts the two blocks side by side
SideBySide(block, panel, ascii_width, padding) ==
    [i \in 1..Max(Len(block), Len(panel)) |->
        LJust(IF i <= Len(block) THEN block[i] ELSE "", ascii_width)
            \o Repeat(" ", padding)
            \o (IF i <= Len(panel) THEN panel[i] ELSE "")]

merge_ascii_and_info(ascii_lines, info_lines) ==
    LET ascii_width == MaxLen(ascii_lines)
    IN  SideBySide(AsciiBlock(ascii_lines, Len(info_lines), ascii_width),
                   InfoBlock(ascii_lines, info_lines), ascii_width, 6)

----------------------------------------------------------------------------
(* generate_readme, step by step.                                          *)

\* line.rstrip() for the blanks an art file holds
RECURSIVE rstrip(_)
rstrip(line) ==
    IF line # "" /\ SubSeq(line, Len(line), Len(line)) = " "
    THEN rstrip(SubSeq(line, 1, Len(line) - 1))
    ELSE line

\* load_ascii_art
load_ascii_art(file) ==
    IF file.state = "missing" THEN Raised("FileNotFoundError")
    ELSE Returned([i \in 1..Len(file.lines) |-> rstrip(file.lines[i])])

\* load_config
load_config(file) ==
    IF file.state = "missing" THEN Raised("FileNotFoundError")
    ELSE IF file.state = "malformed" THEN Raised("JSONDecodeError")
    ELSE Returned(file.data)

\* the README content of the merged lines
ReadmeContent(merged, username) ==
    "<pre>\n" \o Join("\n", merged) \o "\n</pre>\n" \o "\n---\n\n"
        \o "<p align=\"center\"> <img src=\"https://komarev.com/ghpvc/?username="
        \o username \o "&label=eyes\" alt=\"" \o username \o "\" /> </p>\n"

----------------------------------------------------------------------------
(* The text side of the state: calls of format_number, build_info_lines    *)
(* and merge_ascii_and_info, and the days that pass between them.          *)

\* the day the first call is made on
StartDay == Date(2024, 2, 27)

\* the numbers format_number is called with: those around the thresholds,
\* the examples and the ties of the decimal place
Numbers ==
    { a + k : a \in { 0, 42, 1000, 1050, 1250, 1500, 1750, 999950, 1000000, 1050000,
                      1250000, 2500000, 999950000 },
              k \in (0 - FmtWindow)..FmtWindow } \cap Nat

ConfigFull ==
    [ username |-> "alice", header |-> "alice@github", host |-> "GitHub",
      kernel |-> "Python", birthday |-> "2000-02-29",
      location |-> "A town with a name that is too long for one line",
      languages |-> [code |-> "Python", markup |-> "HTML", human |-> "English"],
      stack |-> [backend |-> "Django", frontend |-> "htmx", database |-> "PostgreSQL",
                 infra |-> "Docker"],
      contact |-> [website |-> [url |-> "https://a.example", label |-> "a.example"],
                   email |-> [url |-> "mailto:a@a.example", label |-> "a@a.example"],
                   linkedin |-> [url |-> "", label |-> "alice"]] ]

ConfigBare == [username |-> "alice", header |-> "alice"]

ConfigYoung ==
    [ username |-> "bob", header |-> "bob", birthday |-> "2023-01-31",
      languages |-> [code |-> ""], stack |-> [infra |-> "Docker"] ]

ConfigUnborn ==
    [ username |-> "carol", header |-> "carol", kernel |-> "", birthday |-> "2024-03-01",
      contact |-> [email |-> [url |-> "mailto:c@c.example", label |-> "c>c"]] ]

ConfigNoHeader == [username |-> "alice", host |-> "GitHub"]

Configs == {ConfigFull, ConfigBare, ConfigYoung, ConfigUnborn, ConfigNoHeader}

\* statistics records as fetch_github_stats returns them
StatsSamples ==
    { ZeroStats,
      [repos |-> 1500, stars |-> 999, followers |-> 1200, commits |-> 1500,
       prs |-> 1000, additions |-> 2500000, deletions |-> 999950],
      [repos |-> 12, stars |-> 1250, followers |-> 3, commits |-> 42,
       prs |-> 1000000, additions |-> 1050, deletions |-> 0],
      [repos |-> 1000, stars |-> 1001, followers |-> 1001, commits |-> 999999,
       prs |-> 7, additions |-> 600, deletions |-> 400] }

NoFiles ==
    [ ascii |-> [state |-> "missing", lines |-> <<>>],
      config |-> [state |-> "missing", data |-> EmptyDict],
      output |-> [state |-> "missing", text |-> ""] ]

NoRun ==
    [ pc |-> "idle", token |-> "", verbose |-> FALSE, before |-> NoFiles.output,
      ascii_lines |-> <<>>, config |-> EmptyDict, stats |-> ZeroStats,
      info_lines |-> <<>>, merged |-> <<>>, out |-> <<>>, error |-> "" ]

\* nothing of the text side has run
InitText ==
    /\ today = StartDay
    /\ fmt = [called |-> FALSE, n |-> 0, out |-> ""]
    /\ info = [ called |-> FALSE, repeat |-> FALSE, config |-> ConfigBare,
                stats |-> ZeroStats, today |-> StartDay, last |-> StartDay,
                res |-> Returned(<<>>) ]
    /\ merge = [called |-> FALSE, ascii_lines |-> <<>>, info_lines |-> <<>>,
                result |-> <<>>]

\* and no run of generate_readme either
InitIdle ==
    /\ InitText
    /\ files = NoFiles
    /\ readme = NoRun

----------------------------------------------------------------------------
(* SpecLoc: runs of fetch_loc_with_cache against a GitHub account that     *)
(* receives pushes between the runs.                                       *)

\* the repository lists an account may have: none, o/a, and o/a then o/b
\* with one of them a fork or neither
RepoLists ==
    { <<>>,
      <<[nameWithOwner |-> "o/a", isFork |-> FALSE]>> }
    \cup { <<[nameWithOwner |-> "o/a", isFork |-> fork[1]],
             [nameWithOwner |-> "o/b", isFork |-> fork[2]]>> :
               fork \in {<<FALSE, FALSE>>, <<TRUE, FALSE>>, <<FALSE, TRUE>>} }

\* cache files a first run may find: none, and one left by
\* earlier runs: a stale entry, an entry without totals, and an entry of a
\* repository that is gone
InitCaches ==
    { [state |-> "missing", data |-> EmptyDict],
      [state |-> "ok", data |-> [n \in {"o/a", "o/b", "o/gone"} |->
          CASE n = "o/a"    -> [commitCount |-> 1, additions |-> 9, deletions |-> 8,
                                myCommits |-> 1]
            [] n = "o/b"    -> [commitCount |-> 0]
            [] n = "o/gone" -> [commitCount |-> 4, additions |-> 6, deletions |-> 2,
                                myCommits |-> 4]]] }

NoCall ==
    [ called |-> FALSE, token |-> "", verbose |-> FALSE, repeat |-> FALSE,
      net |-> NoFailure,
      res |-> LocResult(<<0, 0>>, NoIo, [state |-> "missing", data |-> EmptyDict],
                        <<>>, EmptyDict, 0, 0, FALSE, FALSE) ]

NoAccount ==
    [public_repos |-> 0, followers |-> 0, stargazers |-> <<>>, commits |-> 0, prs |-> 0]

NoStats ==
    [ called |-> FALSE, token |-> "", verbose |-> FALSE, net |-> NoFailure,
      rest |-> [call \in RestCalls |-> 200], ret |-> ZeroStats, io |-> NoIo ]

InitLoc ==
    /\ remoteRepos \in RepoLists
    /\ history = [n \in Names |-> <<>>]
    /\ cacheFile \in InitCaches
    /\ loc = NoCall
    /\ dirty = FALSE
    /\ account = NoAccount
    /\ stats = NoStats
    /\ InitIdle

RECURSIVE SumLen(_, _)
SumLen(h, names) ==
    IF names = {} THEN 0
    ELSE LET n == CHOOSE n \in names : TRUE
         IN  Len(h[n]) + SumLen(h, names \ {n})

\* the failures of `net` that the requests of a call met
Met(net, io) ==
    LET bad == net.bad \cap Range(io.requests)
    IN  IF bad = {} THEN NoFailure ELSE [bad |-> bad, kind |-> net.kind]

\* the requests a call sends when none of them fails
Sent(token) == Range(fetch_loc_with_cache(token, FALSE, NoFailure, NoIo, cacheFile).io.requests)

\* somebody pushes a commit to the default branch of one of the repositories
Push(name, commit) ==
    /\ \E i \in 1..Len(remoteRepos) : remoteRepos[i].nameWithOwner = name
    /\ SumLen(history, Names) < MaxCommits
    /\ history' = [history EXCEPT ![name] = Append(@, commit)]
    /\ dirty' = TRUE
    /\ UNCHANGED <<remoteRepos, cacheFile, loc, varsStats, varsText, varsReadme>>

\* a call of fetch_loc_with_cache; `repeat` records that it repeats the
\* call before it: no push in between, both with a token, both past the
\* user id, both with the same enumeration
FetchLocReturns(token, verbose, net, res) ==
    /\ loc' = [called |-> TRUE, token |-> token, verbose |-> verbose,
               repeat |-> /\ loc.called /\ ~dirty
                          /\ loc.token # "" /\ token # ""
                          /\ loc.res.read /\ res.read
                          /\ loc.res.repos = res.repos,
               net |-> Met(net, res.io), res |-> res]
    /\ cacheFile' = res.file
    /\ dirty' = FALSE
    /\ UNCHANGED <<remoteRepos, history, varsStats, varsText, varsReadme>>

FetchLoc(token, verbose, net) ==
    FetchLocReturns(token, verbose, net,
                    fetch_loc_with_cache(token, verbose, net, NoIo, cacheFile))

NextLoc ==
    \/ \E name \in Names, commit \in CommitKinds : Push(name, commit)
    \/ \E token \in {"", "ghp_token"}, verbose \in {FALSE} :
          \E net \in Nets(Sent(token)) : FetchLoc(token, verbose, net)

SpecLoc == InitLoc /\ [][NextLoc]_vars

----------------------------------------------------------------------------
(* SpecStats: calls of fetch_github_stats for an account whose REST calls  *)
(* succeed or fail one by one.                                             *)

Accounts ==
    { [public_repos |-> 2, followers |-> 3, stargazers |-> <<4, 1>>,
       commits |-> 1500, prs |-> 12],
      [public_repos |-> 1, followers |-> 1200, stargazers |-> <<>>,
       commits |-> 7, prs |-> 0] }

Commit(kind) == CHOOSE c \in CommitKinds : c.additions = kind

InitStats ==
    /\ remoteRepos = <<[nameWithOwner |-> "o/a", isFork |-> FALSE],
                       [nameWithOwner |-> "o/b", isFork |-> TRUE]>>
    /\ history = [n \in Names |-> IF n = "o/a" THEN <<Commit(3)>> ELSE <<Commit(5)>>]
    /\ cacheFile \in {[state |-> "missing", data |-> EmptyDict],
                      [state |-> "malformed", data |-> EmptyDict]}
    /\ loc = NoCall
    /\ dirty = FALSE
    /\ account \in Accounts
    /\ stats = NoStats
    /\ InitIdle

\* the one call a run of the tool makes
FetchGithubStatsReturns(token, verbose, rest, net, res) ==
    /\ stats' = [called |-> TRUE, token |-> token, verbose |-> verbose,
                 net |-> Met(net, res.io), rest |-> rest,
                 ret |-> res.stats, io |-> res.io]
    /\ cacheFile' = res.file
    /\ UNCHANGED <<remoteRepos, history, loc, dirty, account, varsText, varsReadme>>

FetchGithubStats(token, verbose, rest, net) ==
    /\ ~stats.called
    /\ FetchGithubStatsReturns(token, verbose, rest, net,
            fetch_github_stats(token, verbose, rest, net, NoIo, cacheFile))

NextStats ==
    \E token \in {"", "ghp_token"}, verbose \in BOOLEAN,
       rest \in [RestCalls -> {200, 403}] :
          \E net \in Nets(Sent(token)) : FetchGithubStats(token, verbose, rest, net)

SpecStats == InitStats /\ [][NextStats]_vars

----------------------------------------------------------------------------
(* SpecFormat: calls of format_number and of build_info_lines on one day.  *)

InitFormat ==
    /\ InitStats
    /\ cacheFile.state = "missing"
    /\ account = CHOOSE a \in Accounts : a.public_repos = 2

FormatNumber(n) ==
    /\ fmt' = [called |-> TRUE, n |-> n, out |-> format_number(n)]
    /\ UNCHANGED <<varsLoc, varsStats, today, info, merge, varsReadme>>

\* a call of build_info_lines; `repeat` records that the call before it had
\* the same two arguments, `last` the day of that call
BuildInfo(config, st) ==
    /\ info' = [called |-> TRUE,
                repeat |-> info.called /\ info.config = config /\ info.stats = st,
                config |-> config, stats |-> st, today |-> today, last |-> info.today,
                res |-> build_info_lines(config, st, today)]
    /\ UNCHANGED <<varsLoc, varsStats, today, fmt, merge, varsReadme>>

NextFormat ==
    \/ \E n \in Numbers : FormatNumber(n)
    \/ \E config \in {ConfigFull, ConfigBare}, st \in StatsSamples : BuildInfo(config, st)

SpecFormat == InitFormat /\ [][NextFormat]_vars

----------------------------------------------------------------------------
(* SpecInfo: calls of build_info_lines while the days pass.                *)

\* midnight passes
Tick ==
    /\ ToOrdinal(today) - ToOrdinal(StartDay) < MaxDays
    /\ today' = NextDay(today)
    /\ UNCHANGED <<varsLoc, varsStats, fmt, info, merge, varsReadme>>

NextInfo ==
    \/ Tick
    \/ \E config \in Configs, st \in StatsSamples : BuildInfo(config, st)

SpecInfo == InitFormat /\ [][NextInfo]_vars

----------------------------------------------------------------------------
(* SpecMerge: calls of merge_ascii_and_info.                               *)

Lists(lines, max) == UNION {[1..k -> lines] : k \in 0..max}

\* the one call a run of the tool makes
Merge(ascii_lines, info_lines) ==
    /\ ~merge.called
    /\ merge' = [called |-> TRUE, ascii_lines |-> ascii_lines, info_lines |-> info_lines,
                 result |-> merge_ascii_and_info(ascii_lines, info_lines)]
    /\ UNCHANGED <<varsLoc, varsStats, today, fmt, info, varsReadme>>

\* the lines of an art file after rstrip, and lines of an info panel
NextMerge ==
    \E ascii_lines \in Lists({"", "@", "@@ @"}, MaxArt),
       info_lines \in Lists({"", "$ me"}, MaxInfo) :
        Merge(ascii_lines, info_lines)

SpecMerge == InitFormat /\ [][NextMerge]_vars

----------------------------------------------------------------------------
(* SpecReadme: one run of generate_readme over the files it finds.         *)

\* the files a run may find: each of them missing or there, the
\* configuration also malformed or without a key the run reads
Files ==
    [ ascii :  { [state |-> "missing", lines |-> <<>>],
                 [state |-> "ok", lines |-> <<"@@ ", " @", "">>] },
      config : { [state |-> "missing", data |-> EmptyDict],
                 [state |-> "malformed", data |-> EmptyDict] }
               \cup { [state |-> "ok", data |-> c] :
                        c \in {ConfigFull, ConfigBare, ConfigNoHeader,
                               [header |-> "alice", host |-> "GitHub"]} },
      output : { [state |-> "missing", text |-> ""],
                 [state |-> "ok", text |-> "<pre>\nold\n</pre>\n"] } ]

InitReadme ==
    /\ remoteRepos = <<[nameWithOwner |-> "o/a", isFork |-> FALSE],
                       [nameWithOwner |-> "o/b", isFork |-> TRUE]>>
    /\ history = [n \in Names |-> IF n = "o/a" THEN <<Commit(3)>> ELSE <<Commit(5)>>]
    /\ cacheFile = [state |-> "missing", data |-> EmptyDict]
    /\ loc = NoCall
    /\ dirty = FALSE
    /\ account \in Accounts
    /\ stats = NoStats
    /\ InitText
    /\ files \in Files
    /\ \E token \in {"", "ghp_token"}, verbose \in BOOLEAN :
          readme = [NoRun EXCEPT !.pc = "start", !.token = token, !.verbose = verbose,
                                 !.before = files.output]

\* an exception leaves generate_readme
Abort(error) == [readme EXCEPT !.pc = "aborted", !.error = error]

\* a step of generate_readme that calls a function and keeps what it
\* returns in a local
Step(res, pc, local) ==
    /\ readme' = IF res.raised # "" THEN Abort(res.raised)
                 ELSE [readme EXCEPT !.pc = pc, ![local] = res.value]
    /\ UNCHANGED <<varsLoc, varsStats, varsText, files>>

LoadArt ==
    /\ readme.pc = "start"
    /\ Step(load_ascii_art(files.ascii), "art", "ascii_lines")

LoadConfig ==
    /\ readme.pc = "art"
    /\ Step(load_config(files.config), "config", "config")

\* if verbose: print("Fetching GitHub stats...")
Announced == IF readme.verbose THEN <<"Fetching GitHub stats...">> ELSE <<>>

FetchReturns(res) ==
    /\ readme' = [readme EXCEPT !.pc = "stats", !.stats = res.stats,
                                !.out = Announced \o res.io.out]
    /\ cacheFile' = res.file
    /\ UNCHANGED <<remoteRepos, history, loc, dirty, varsStats, varsText, files>>

\* config["username"] of a configuration without that key raises KeyError
Fetch(rest) ==
    /\ readme.pc = "config"
    /\ IF "username" \notin DOMAIN readme.config
       THEN /\ readme' = [Abort("KeyError: 'username'") EXCEPT !.out = Announced]
            /\ UNCHANGED <<varsLoc, varsStats, varsText, files>>
       ELSE FetchReturns(fetch_github_stats(readme.token, readme.verbose, rest, NoFailure,
                                            NoIo, cacheFile))

\* requests.get raises for a network that is down, and nothing catches it
FetchRaises ==
    /\ readme.pc = "config"
    /\ "username" \in DOMAIN readme.config
    /\ readme' = [Abort("ConnectionError") EXCEPT !.out = Announced]
    /\ UNCHANGED <<varsLoc, varsStats, varsText, files>>

\* (mutant) README.md is opened for writing before the lines are built
BuildOpening ==
    /\ readme.pc = "stats"
    /\ readme' = [readme EXCEPT !.pc = "info",
                     !.info_lines = build_info_lines(readme.config, readme.stats, today).value]
    /\ files' = [files EXCEPT !.output = [state |-> "ok", text |-> ""]]
    /\ UNCHANGED <<varsLoc, varsStats, varsText>>

Build ==
    /\ readme.pc = "stats"
    /\ Step(build_info_lines(readme.config, readme.stats, today), "info", "info_lines")

MergeStep ==
    /\ readme.pc = "info"
    /\ Step(Returned(merge_ascii_and_info(readme.ascii_lines, readme.info_lines)),
            "merged", "merged")

\* with open(output_file, "w") as f: f.write(readme_content), and the last print
Write ==
    /\ readme.pc = "merged"
    /\ files' = [files EXCEPT !.output =
                    [state |-> "ok",
                     text |-> ReadmeContent(readme.merged, readme.config["username"])]]
    /\ readme' = [readme EXCEPT !.pc = "done", !.out = @ \o <<"Generated README.md">>]
    /\ UNCHANGED <<varsLoc, varsStats, varsText>>

NextReadme ==
    \/ LoadArt
    \/ LoadConfig
    \/ \E rest \in {[call \in RestCalls |-> 200], [call \in RestCalls |-> 403]} : Fetch(rest)
    \/ FetchRaises
    \/ Build
    \/ MergeStep
    \/ Write

SpecReadme == InitReadme /\ [][NextReadme]_vars

----------------------------------------------------------------------------
(* What the claims about fetch_loc_with_cache speak of.                    *)

\* the commits of `name` that are the user's own
IsMine(commit) ==
    /\ commit.author # None
    /\ commit.author[1].user # None
    /\ commit.author[1].user[1].id = MyId

\* the commits of `name` on the pages before the first page whose request is
\* in `bad`: what a traversal of the history gets to see
PagesRead(name, bad) ==
    LET n       == Len(history[name])
        starts  == {k \in 0..n : k % PageSize = 0 /\ (k < n \/ k = 0)}
        failing == {k \in starts :
                      HistoryReq(name, IF k = 0 THEN None ELSE Some(k)) \in bad}
        limit   == IF failing = {} THEN n
                   ELSE CHOOSE k \in failing : \A j \in failing : k <= j
    IN  SelectSeq(SubSeq(history[name], 1, limit), IsMine)

FreshEntry(name, current_commits, bad) ==
    LET read == PagesRead(name, bad)
    IN  [ commitCount |-> current_commits,
          additions   |-> SumSeq([i \in 1..Len(read) |-> read[i].additions]),
          deletions   |-> SumSeq([i \in 1..Len(read) |-> read[i].deletions]),
          myCommits   |-> Len(read) ]

\* the entry of a repository is missing, or stored under another commit count
IsStale(cache, repo) ==
    \/ repo.nameWithOwner \notin DOMAIN cache
    \/ "commitCount" \notin DOMAIN cache[repo.nameWithOwner]
    \/ cache[repo.nameWithOwner].commitCount # repo.commitCount

IsHistoryReq(req) == req[1] = "history"

C2_StaleRecomputed ==
    (loc.called /\ loc.res.read /\ ~dirty) =>
        LET res      == loc.res
            Fresh(r) == FreshEntry(r.nameWithOwner, r.commitCount, loc.net.bad)
            Part(r, key) ==
                IF r.isFork THEN 0
                ELSE IF IsStale(res.before, r) THEN Fresh(r)[key]
                ELSE Get(res.before[r.nameWithOwner], key, 0)
        IN  /\ \A i \in 1..Len(res.repos) :
                 LET r == res.repos[i]
                 IN  (~r.isFork /\ IsStale(res.before, r)) =>
                        /\ HistoryReq(r.nameWithOwner, None) \in Range(res.io.requests)
                        /\ cacheFile.data[r.nameWithOwner] = Fresh(r)
            /\ res.ret[1] = SumSeq([i \in 1..Len(res.repos) |-> Part(res.repos[i], "additions")])
            /\ res.ret[2] = SumSeq([i \in 1..Len(res.repos) |-> Part(res.repos[i], "deletions")])

\* a call that found an entry stored under another commit count, with totals
\* other than the ones it then read
C2_Witness ==
    /\ loc.called /\ loc.res.read /\ ~dirty
    /\ \E i \in 1..Len(loc.res.repos) :
          LET r == loc.res.repos[i]
          IN  /\ ~r.isFork
              /\ r.nameWithOwner \in DOMAIN loc.res.before
              /\ IsStale(loc.res.before, r)
              /\ "additions" \in DOMAIN loc.res.before[r.nameWithOwner]
              /\ loc.res.before[r.nameWithOwner].additions
                    # cacheFile.data[r.nameWithOwner].additions
              /\ cacheFile.data[r.nameWithOwner].additions > 0

\* C3: the returned totals are the sums, over the enumerated repositories
\* that are not forks, of the totals their cache entries hold after the call;
\* a fork has no history requested and its cache entry, if any, is left as it
\* was; with no repository enumerated the totals are (0, 0).
C3_ForksExcluded ==
    loc.called =>
        LET res  == loc.res
            kept == SelectSeq(res.repos, LAMBDA r : ~r.isFork)
            Total(key) ==
                SumSeq([i \in 1..Len(kept) |->
                          Get(cacheFile.data[kept[i].nameWithOwner], key, 0)])
        IN  /\ res.ret = <<Total("additions"), Total("deletions")>>
            /\ \A i \in 1..Len(res.repos) :
                 LET name == res.repos[i].nameWithOwner
                 IN  res.repos[i].isFork =>
                        /\ \A req \in Range(res.io.requests) :
                              ~(IsHistoryReq(req) /\ req[2] = name)
                        /\ (name \in DOMAIN cacheFile.data) = (name \in DOMAIN res.before)
                        /\ name \in DOMAIN res.before
                              => cacheFile.data[name] = res.before[name]
            /\ res.repos = <<>> => res.ret = <<0, 0>>

\* a call that enumerated a fork with commits and with a cache entry under
\* its name, next to a repository that counted
C3_Witness ==
    /\ loc.called /\ loc.res.read
    /\ loc.res.ret[1] > 0
    /\ \E i \in 1..Len(loc.res.repos) :
          /\ loc.res.repos[i].isFork
          /\ loc.res.repos[i].commitCount > 0
          /\ loc.res.repos[i].nameWithOwner \in DOMAIN loc.res.before

\* the pageInfo a request of a traversal got, None when the request failed or
\* the response carried no page
Got(req, bad) ==
    IF req \in bad THEN None
    ELSE IF req[1] = "repos" THEN Some(Page(RepoNodes, req[3]).pageInfo)
    ELSE IF history[req[2]] = <<>> THEN None
    ELSE Some(Page(history[req[2]], req[3]).pageInfo)

\* C5: in both traversals a request for a further page follows directly a
\* page of the same traversal that reported hasNextPage = true, and asks for
\* the page after that page's endCursor; after a page with hasNextPage =
\* false, a failed request or a response without a page, the traversal sends
\* nothing more.
C5_PaginationStops ==
    (loc.called /\ ~dirty) =>
        LET reqs == loc.res.io.requests
            bad  == loc.net.bad
        IN  \A k \in 1..Len(reqs) :
              /\ reqs[k][3] # None =>
                    /\ k > 1
                    /\ reqs[k - 1][1] = reqs[k][1]
                    /\ reqs[k - 1][2] = reqs[k][2]
                    /\ Got(reqs[k - 1], bad) # None
                    /\ Got(reqs[k - 1], bad)[1].hasNextPage
                    /\ Got(reqs[k - 1], bad)[1].endCursor = reqs[k][3]
              /\ ( /\ reqs[k][1] # "user"
                   /\ k < Len(reqs)
                   /\ (Got(reqs[k], bad) = None \/ ~Got(reqs[k], bad)[1].hasNextPage) )
                 => reqs[k + 1][3] = None

\* a history traversal that went to a second page and stopped there on
\* hasNextPage = false although that page carried an endCursor
C5_Witness ==
    /\ loc.called /\ ~dirty
    /\ \E k \in 1..Len(loc.res.io.requests) :
          LET req == loc.res.io.requests[k]
          IN  /\ req[1] = "history"
              /\ req[3] # None
              /\ Got(req, loc.net.bad) # None
              /\ ~Got(req, loc.net.bad)[1].hasNextPage
              /\ Got(req, loc.net.bad)[1].endCursor # None

RestLog == <<<<"GET", "user", None>>, <<"GET", "repos", None>>,
             <<"GET", "commits", None>>, <<"GET", "prs", None>>>>

\* C4: whichever of the four REST calls return a non-200 status, the fields
\* they feed are 0, the other fields hold what their responses report, all
\* four calls are sent in order, and a record with all seven fields is
\* returned; without a token nothing of the line-count procedure runs (no
\* GraphQL request, no message) and additions and deletions are 0.
C4_IndependentFailure ==
    stats.called =>
        LET ok(call) == stats.rest[call] = 200
        IN  /\ stats.ret.repos = IF ok("user") THEN account.public_repos ELSE 0
            /\ stats.ret.followers = IF ok("user") THEN account.followers ELSE 0
            /\ stats.ret.stars = IF ok("repos") THEN SumSeq(account.stargazers) ELSE 0
            /\ stats.ret.commits = IF ok("commits") THEN account.commits ELSE 0
            /\ stats.ret.prs = IF ok("prs") THEN account.prs ELSE 0
            /\ Len(stats.io.requests) >= 4
            /\ SubSeq(stats.io.requests, 1, 4) = RestLog
            /\ DOMAIN stats.ret = {"repos", "stars", "followers", "commits", "prs",
                                   "additions", "deletions"}
            /\ stats.token = "" =>
                  /\ stats.io.requests = RestLog
                  /\ stats.io.out = <<>>
                  /\ stats.ret.additions = 0
                  /\ stats.ret.deletions = 0

\* a call whose profile and commit-search calls failed while the other two
\* filled their fields
C4_Witness ==
    /\ stats.called
    /\ stats.rest["user"] # 200 /\ stats.rest["commits"] # 200
    /\ stats.rest["repos"] = 200 /\ stats.rest["prs"] = 200
    /\ stats.ret.stars > 0 /\ stats.ret.prs > 0
    /\ stats.ret.repos = 0 /\ stats.ret.commits = 0

\* C7: a call with verbose off prints nothing, whatever fails.
C7_SilentUnlessVerbose ==
    (stats.called /\ ~stats.verbose) => stats.io.out = <<>>

\* C11: after a call that got to the loop, the entry of every enumerated
\* repository that is not a fork and that missed holds the repository's
\* current commit count and the sums over all of its history of the user's
\* own commits, whatever request failed during the call.
C11_CompleteSums ==
    (loc.called /\ loc.res.read /\ ~dirty) =>
        \A i \in 1..Len(loc.res.repos) :
            LET r == loc.res.repos[i]
            IN  (~r.isFork /\ IsStale(loc.res.before, r)) =>
                    /\ r.nameWithOwner \in DOMAIN cacheFile.data
                    /\ cacheFile.data[r.nameWithOwner]
                          = FreshEntry(r.nameWithOwner, Len(history[r.nameWithOwner]), {})

\* C12: a call without a token, or whose user-id request failed, neither
\* reads nor writes the cache file; any other call writes back every key the
\* file held, and with the entry it held unless the key is the name of an
\* enumerated repository that is not a fork and that missed.
C12_CacheFrame ==
    [][ loc'.called =>
          IF loc'.token = "" \/ UserReq \in loc'.net.bad
          THEN /\ cacheFile' = cacheFile
               /\ ~loc'.res.read
               /\ ~loc'.res.wrote
          ELSE LET old == IF cacheFile.state = "ok" THEN cacheFile.data ELSE EmptyDict
                   new == cacheFile'.data
                   missed == { loc'.res.repos[i].nameWithOwner : i \in
                                 { j \in 1..Len(loc'.res.repos) :
                                     /\ ~loc'.res.repos[j].isFork
                                     /\ IsStale(old, loc'.res.repos[j]) } }
               IN  /\ cacheFile'.state = "ok"
                   /\ DOMAIN old \subseteq DOMAIN new
                   /\ \A name \in DOMAIN new \ missed :
                         name \in DOMAIN old /\ new[name] = old[name] ]_vars

\* a call that served one repository from the cache and fetched another,
\* over a cache that also held an entry of a repository no longer enumerated
C12_Witness ==
    /\ loc.called /\ loc.res.read /\ loc.res.wrote
    /\ loc.res.cache_hits >= 1
    /\ loc.res.cache_misses >= 1
    /\ "o/gone" \in DOMAIN loc.res.before
    /\ \A i \in 1..Len(loc.res.repos) : loc.res.repos[i].nameWithOwner # "o/gone"
    /\ "o/gone" \in DOMAIN cacheFile.data
    /\ cacheFile.data["o/gone"] = loc.res.before["o/gone"]

----------------------------------------------------------------------------
(* What the claims about the text side speak of.                           *)

\* the number a result of format_number denotes: "1.5K" is 1500
Denoted(s) ==
    LET mantissa == SubSeq(s, 1, Len(s) - 1)
        tenths == ParseInt(SplitHead(mantissa, ".")) * 10 + ParseInt(SplitRest(mantissa, "."))
    IN  IF s # "" /\ SubSeq(s, Len(s), Len(s)) = "K" THEN tenths * 100
        ELSE IF s # "" /\ SubSeq(s, Len(s), Len(s)) = "M" THEN tenths * 100000
        ELSE ParseInt(s)

\* s is a number with one digit after the point, followed by the suffix
IsOneDecimal(s, suffix) ==
    /\ Len(s) >= 4
    /\ SubSeq(s, Len(s), Len(s)) = suffix
    /\ SubSeq(s, Len(s) - 2, Len(s) - 2) = "."
    /\ \A i \in (1..Len(s) - 3) \cup {Len(s) - 1} :
          SubSeq(s, i, i) \in {"0", "1", "2", "3", "4", "5", "6", "7", "8", "9"}
    /\ (Len(s) > 4 => SubSeq(s, 1, 1) # "0")

\* s is n in the abbreviated form: verbatim below 1000, the nearest tenth
\* of n / 1000 with a K from there on, of n / 1000000 with an M from 1000000
Abbreviated(n, s) ==
    IF n < 1000 THEN s = ToString(n)
    ELSE IF n < 1000000
    THEN IsOneDecimal(s, "K") /\ 2 * Max(n - Denoted(s), Denoted(s) - n) <= 100
    ELSE IsOneDecimal(s, "M") /\ 2 * Max(n - Denoted(s), Denoted(s) - n) <= 100000

StartsWith(s, prefix) == Len(s) >= Len(prefix) /\ SubSeq(s, 1, Len(prefix)) = prefix

\* the value printed on the line of `label`
Printed(lines, label) ==
    LET line == CHOOSE l \in Range(lines) : StartsWith(l, "  " \o label \o ": ")
        value == SplitRest(line, ". ")
    IN  SubSeq(value, 1, Len(value) - 2)

\* the three numbers of the "Lines of Code" value: total { additions++, deletions-- }
PrintedLoc(lines) ==
    LET value == Printed(lines, "Lines of Code")
    IN  << SplitHead(value, " { "),
           SplitHead(SplitRest(value, " { "), "++, "),
           SplitHead(SplitRest(value, "++, "), "-- }") >>

FormatsAsSpecified ==
    fmt.called =>
        /\ Abbreviated(fmt.n, fmt.out)
        /\ fmt.n = 42 => fmt.out = "42"
        /\ fmt.n = 1500 => fmt.out = "1.5K"
        /\ fmt.n = 2500000 => fmt.out = "2.5M"

FormatsMonotonically ==
    (fmt.called /\ fmt'.called /\ fmt.n <= fmt'.n) => Denoted(fmt.out) <= Denoted(fmt'.out)

\* the values format_number is applied to are printed abbreviated
FormattedValuesAbbreviated ==
    /\ Abbreviated(info.stats.commits, Printed(info.res.value, "Commits"))
    /\ Abbreviated(info.stats.prs, Printed(info.res.value, "PRs"))
    /\ Abbreviated(info.stats.stars, Printed(info.res.value, "Stars"))
    /\ Abbreviated(info.stats.additions + info.stats.deletions, PrintedLoc(info.res.value)[1])
    /\ Abbreviated(info.stats.additions, PrintedLoc(info.res.value)[2])
    /\ Abbreviated(info.stats.deletions, PrintedLoc(info.res.value)[3])

\* C8 as stated: format_number gives n verbatim below 1000, n / 1000 to one
\* decimal place with a K up to 1000000 and n / 1000000 with an M from
\* there on, the number denoted never decreases as n grows, and every
\* number above 1000 in the statistics section is printed abbreviated,
\* Repos and Followers included.
C8_AsStated ==
    /\ [](FormatsAsSpecified)
    /\ [][FormatsMonotonically]_vars
    /\ []((info.called /\ info.res.raised = "") =>
            /\ FormattedValuesAbbreviated
            /\ info.stats.repos > 1000 =>
                  Abbreviated(info.stats.repos, Printed(info.res.value, "Repos"))
            /\ info.stats.followers > 1000 =>
                  Abbreviated(info.stats.followers, Printed(info.res.value, "Followers")))

\* C8: format_number gives n verbatim below 1000, n / 1000 to one decimal
\* place with a K up to 1000000 and n / 1000000 with an M from there on, the
\* number denoted never decreases as n grows; in the statistics section the
\* Commits, PRs, Stars and Lines of Code numbers are printed abbreviated,
\* while Repos and Followers are printed verbatim whatever their size.
C8_FormatNumber ==
    /\ [](FormatsAsSpecified)
    /\ [][FormatsMonotonically]_vars
    /\ []((info.called /\ info.res.raised = "") =>
            /\ FormattedValuesAbbreviated
            /\ Printed(info.res.value, "Repos") = ToString(info.stats.repos)
            /\ Printed(info.res.value, "Followers") = ToString(info.stats.followers))

\* format_number was called at a tie that the double settles upwards into
\* four digits, and a panel was built from statistics above 1000
C8_Witness ==
    /\ fmt.called /\ fmt.n = 999950 /\ fmt.out = "1000.0K"
    /\ info.called /\ info.res.raised = ""
    /\ info.stats.commits > 1000 /\ info.stats.repos > 1000
    /\ info.stats.additions >= 1000000
    /\ Printed(info.res.value, "Commits") = "1.5K"
    /\ Printed(info.res.value, "Repos") = "1500"

\* the two calls of a step have the same arguments
SameArguments ==
    /\ info.called /\ info'.called
    /\ info'.config = info.config
    /\ info'.stats = info.stats

C9_Compositor ==
    merge.called =>
        LET H1 == Len(merge.ascii_lines)
            H2 == Len(merge.info_lines)
            W == MaxLen(merge.ascii_lines)
            result == merge.result
        IN  /\ Len(result) = Max(H1 + 2, H2)
            /\ Len(result) >= Max(H1, H2)
            /\ Len(result) <= Max(H1, H2) + 2
            /\ \A i \in 1..Len(result) :
                  /\ Len(result[i]) >= W + 6
                  /\ SubSeq(result[i], W + 7, Len(result[i]))
                        = IF i <= H2 THEN merge.info_lines[i] ELSE ""

\* an art was merged with an info panel tall enough for fill lines above
\* and below it
C9_Witness ==
    /\ merge.called
    /\ Len(merge.ascii_lines) >= 2
    /\ Len(merge.info_lines) >= Len(merge.ascii_lines) + 4
    /\ MaxLen(merge.ascii_lines) = 4
    /\ \E i \in 1..Len(merge.ascii_lines) : Len(merge.ascii_lines[i]) < 4
    /\ Len(merge.result) = Len(merge.info_lines)

\* C6: README.md is as the run found it until the run is done, so a run that
\* aborts leaves it missing or unmodified; a run that is done has loaded the
\* art and the configuration, fetched the statistics, built and merged the
\* lines, and written the content made of them.
C6_NoPartialOutput ==
    /\ readme.pc \notin {"idle", "done"} => files.output = readme.before
    /\ readme.pc = "done" =>
          /\ readme.error = ""
          /\ readme.ascii_lines = load_ascii_art(files.ascii).value
          /\ readme.config = files.config.data
          /\ readme.info_lines = build_info_lines(readme.config, readme.stats, today).value
          /\ readme.merged = merge_ascii_and_info(readme.ascii_lines, readme.info_lines)
          /\ files.output =
                [state |-> "ok",
                 text |-> ReadmeContent(readme.merged, readme.config["username"])]

\* a run over an older README.md aborted for the missing header, after it
\* had fetched the statistics and written the cache
C6_Witness ==
    /\ readme.pc = "aborted"
    /\ readme.error = "KeyError: 'header'"
    /\ readme.before.state = "ok"
    /\ cacheFile.state = "ok"
    /\ files.output = readme.before

====
